---- MODULE Spec2Model ----
(***************************************************************************)
(* Model of the Korean/English oral-test analysis system:                  *)
(*   - the query service (src/api_server.py): the process-wide cache       *)
(*     df_master, the dataset build from object storage, the filter and    *)
(*     the HTTP handlers;                                                  *)
(*   - the ingestion stager (src/airflow/dags/daily_data_pipeline.py):     *)
(*     the three tasks upload_to_s3 >> trigger_analysis >>                 *)
(*     call_analysis_api.                                                  *)
(*                                                                         *)
(* Encoding.  A Python string is a sequence of tokens (<<>> is ''), so     *)
(* that prefix, suffix, containment and replace are computed and not       *)
(* looked up.  Non-ASCII literals of the source are transliterated:        *)
(* "Seoul"/"Gyeonggi" are the two metropolitan markers, "yes" is the       *)
(* interview answer meaning "has lived abroad", "resided_abroad" is the    *)
(* interview key, and the age-group / verdict labels are spelled in ASCII. *)
(* A JSON value is a record [t, n, s]: t is its type tag, n its integer    *)
(* value, s its string value.                                              *)
(*                                                                         *)
(* Every handler of the query service is an `async def` without an await   *)
(* and the server runs one event loop in one process (uvicorn.run at       *)
(* api_server.py:541), so each handler runs to completion before the next  *)
(* starts: one action per handler.                                         *)
(***************************************************************************)
EXTENDS Integers, Sequences, FiniteSets, TLC

VARIABLES
    storage,        \* the S3 bucket: function from object key to raw content
    df_master,      \* api_server.py:45 the cached table, or NoTable (Python None)
    response,       \* the last response of the query service
    stale,          \* the cached table was built before the latest upload
    task,           \* position of the DAG run: the task that runs next
    ds,             \* execution date of the DAG run
    xcom,           \* return value of upload_to_s3 ({"uploaded_files": n})
    calls,          \* the HTTP requests call_analysis_api has sent in this run
    runs            \* number of DAG runs started

vars == <<storage, df_master, response, stale, task, ds, xcom, calls, runs>>

apiVars == <<df_master, response, stale>>
dagVars == <<task, ds, xcom, calls, runs>>

-----------------------------------------------------------------------------
(* Values *)

None == [t |-> "null", n |-> 0, s |-> <<>>]
Missing == [t |-> "missing", n |-> 0, s |-> <<>>]
JInt(i) == [t |-> "int", n |-> i, s |-> <<>>]
JStr(str) == [t |-> "str", n |-> 0, s |-> str]
EmptyStr == JStr(<<>>)
EmptyDict == [t |-> "dict", n |-> 0, s |-> <<>>]

\* dict.get(key, default): the default only when the key is absent
Get(v, default) == IF v.t = "missing" THEN default ELSE v

\* Python truthiness of a JSON value (`not x` is ~Truthy(x))
Truthy(v) ==
    CASE v.t = "null" -> FALSE
      [] v.t = "missing" -> FALSE
      [] v.t = "int" -> v.n # 0
      [] v.t = "str" -> v.s # <<>>
      [] v.t = "dict" -> v.n # 0
      [] OTHER -> TRUE

\* a float column value: a number or NaN
NaN == [nan |-> TRUE, v |-> 0]
Num(i) == [nan |-> FALSE, v |-> i]

\* str.startswith / str.endswith / `x in str` / str.replace(x, '') on token strings
StartsWith(str, tok) == Len(str) >= 1 /\ str[1] = tok
EndsWith(str, tok) == Len(str) >= 1 /\ str[Len(str)] = tok
Contains(str, tok) == \E i \in 1..Len(str) : str[i] = tok
Replace(str, tok) == SelectSeq(str, LAMBDA c : c # tok)

\* the decimal digits a numeric string is made of
DigitVal == [c \in {"0", "1", "2", "3", "4", "5", "6", "7", "8", "9"} |->
               CASE c = "0" -> 0 [] c = "1" -> 1 [] c = "2" -> 2 [] c = "3" -> 3
                 [] c = "4" -> 4 [] c = "5" -> 5 [] c = "6" -> 6 [] c = "7" -> 7
                 [] c = "8" -> 8 [] c = "9" -> 9]

IsNumeric(str) == str # <<>> /\ \A i \in 1..Len(str) : str[i] \in DOMAIN DigitVal

RECURSIVE ParseInt(_)
ParseInt(str) ==
    IF str = <<>> THEN 0
    ELSE 10 * ParseInt(SubSeq(str, 1, Len(str) - 1)) + DigitVal[str[Len(str)]]

\* pd.to_numeric(x, errors='coerce') of one cell
to_numeric(v) ==
    CASE v.t = "int" -> Num(v.n)
      [] v.t = "str" -> IF IsNumeric(v.s) THEN Num(ParseInt(v.s)) ELSE NaN
      [] OTHER -> NaN

-----------------------------------------------------------------------------
(* Feature derivation: api_server.py:106-138 *)

LEVEL_MAPPING == [IG |-> 1, TL |-> 2, TM |-> 3, TH |-> 4, NA |-> 5]

\* MapLevel with a default rank in place of NaN for an unknown code
MapLevelDefault(v) ==
    IF v.t = "str" /\ Len(v.s) = 1 /\ v.s[1] \in DOMAIN LEVEL_MAPPING
    THEN Num(LEVEL_MAPPING[v.s[1]])
    ELSE Num(0)

\* Series.map(LEVEL_MAPPING) of one cell: a key of the dict, or NaN
MapLevel(v) ==
    IF v.t = "str" /\ Len(v.s) = 1 /\ v.s[1] \in DOMAIN LEVEL_MAPPING
    THEN Num(LEVEL_MAPPING[v.s[1]])
    ELSE NaN

\* create_age_groups with `<=` at the bucket boundaries
create_age_groups_inclusive(age) ==
    IF age.nan THEN "unknown"
    ELSE IF age.v <= 25 THEN "early20s"
    ELSE IF age.v <= 30 THEN "late20s"
    ELSE IF age.v <= 35 THEN "early30s"
    ELSE IF age.v <= 40 THEN "late30s"
    ELSE "over40"

create_age_groups(age) ==
    IF age.nan THEN "unknown"
    ELSE IF age.v < 25 THEN "early20s"
    ELSE IF age.v < 30 THEN "late20s"
    ELSE IF age.v < 35 THEN "early30s"
    ELSE IF age.v < 40 THEN "late30s"
    ELSE "over40"

metro_areas == {"Seoul", "Gyeonggi"}

classify_metropolitan(location) ==
    IF location.t # "str" THEN FALSE
    ELSE \E area \in metro_areas : Contains(location.s, area)

\* interview is [t, answer]: t = "dict" when it is a mapping, answer the value
\* stored under the residence key (Missing when the key is absent)
extract_english_experience(interview) ==
    IF interview.t # "dict" THEN FALSE
    ELSE Get(interview.answer, EmptyStr) = JStr(<<"yes">>)

-----------------------------------------------------------------------------
(* Record extraction: api_server.py:140-165 *)

\* float(v) of a combo value raises for None and for a non-numeric string
FloatRaises(v) ==
    CASE v.t = "int" -> FALSE
      [] v.t = "str" -> ~IsNumeric(v.s)
      [] OTHER -> TRUE

FloatOf(v) == IF v.t = "int" THEN v.n ELSE ParseInt(v.s)

\* the entries of the level block the dict comprehension keeps (lines 151-154)
ComboKept(level) ==
    SelectSeq(level.combos, LAMBDA e : StartsWith(e.k, "Combo") /\ e.v # EmptyStr)

\* an exception inside the try block of extract_analysis_data: .get on a
\* value that is no mapping, or float() of a kept combo value
ExtractRaises(data) ==
    \/ data.t # "dict"
    \/ data.speaker.t = "other"
    \/ /\ data.speaker.t = "dict"
       /\ \/ data.speaker.level.t = "other"
          \/ /\ data.speaker.level.t = "dict"
             /\ \E i \in 1..Len(ComboKept(data.speaker.level)) :
                    FloatRaises(ComboKept(data.speaker.level)[i].v)
    \/ data.metadata.t = "other"

\* the dict built at lines 144-158 (speaker and level default to {} when absent)
Extracted(data) ==
    LET sp == data.speaker
        has == sp.t = "dict"
        lv == IF has /\ sp.level.t = "dict" THEN sp.level
              ELSE [t |-> "dict", final |-> Missing, combos |-> <<>>]
        kept == ComboKept(lv)
    IN  [participant_id |-> IF has THEN Get(sp.id, EmptyStr) ELSE EmptyStr,
         age |-> IF has THEN Get(sp.age, None) ELSE None,
         location |-> IF has THEN Get(sp.location, EmptyStr) ELSE EmptyStr,
         english_level |-> Get(lv.final, EmptyStr),
         combo_scores |-> [i \in 1..Len(kept) |->
                              [k |-> kept[i].k, v |-> FloatOf(kept[i].v)]],
         interview |-> IF has /\ sp.interview.t # "missing" THEN sp.interview
                       ELSE [t |-> "dict", answer |-> Missing]]

\* extract_analysis_data whose completeness gate forgets the location
extract_without_location_gate(data) ==
    IF ExtractRaises(data) THEN <<>>
    ELSE LET extracted == Extracted(data)
         IN  IF \/ ~Truthy(extracted.age)
                \/ ~Truthy(extracted.english_level)
             THEN <<>>
             ELSE <<extracted>>

\* extract_analysis_data: <<row>>, or <<>> for None
extract_analysis_data(data) ==
    IF ExtractRaises(data) THEN <<>>
    ELSE LET extracted == Extracted(data)
         IN  IF \/ ~Truthy(extracted.age)
                \/ ~Truthy(extracted.location)
                \/ ~Truthy(extracted.english_level)
             THEN <<>>
             ELSE <<extracted>>

-----------------------------------------------------------------------------
(* Preprocessing: api_server.py:200-214 *)

\* the derived columns of one row (lines 204-208)
Derive(row) ==
    LET age == to_numeric(row.age)
    IN  [participant_id |-> row.participant_id,
         age |-> age,
         location |-> row.location,
         english_level |-> row.english_level,
         combo_scores |-> row.combo_scores,
         interview |-> row.interview,
         english_level_numeric |-> MapLevel(row.english_level),
         age_group |-> create_age_groups(age),
         is_metropolitan |-> classify_metropolitan(row.location),
         english_speaking_experience |-> extract_english_experience(row.interview)]

\* dropna(subset=['age', 'english_level_numeric', 'location']) keeps the row
NotNa(row) ==
    /\ ~row.age.nan
    /\ ~row.english_level_numeric.nan
    /\ row.location.t # "null"

\* a DataFrame built from no rows has no columns: df['age'] raises KeyError
PreprocessRaises(all_rows) == all_rows = <<>>

preprocess_dataframe(all_rows) ==
    SelectSeq([i \in 1..Len(all_rows) |-> Derive(all_rows[i])], NotNa)

-----------------------------------------------------------------------------
(* Object keys and the dataset build: api_server.py:167-257 *)

\* An object key is the sequence of its '/'-separated parts (key.split('/')),
\* each part a token string.
RawPrefix == <<"raw">>

\* the objects paginate(Bucket, Prefix) lists
UnderPrefix(bucket) == {key \in DOMAIN bucket : Len(key) >= 1 /\ key[1] = RawPrefix}

\* the orders in which the storage service may enumerate a set of keys
Listings(keys) ==
    {l \in [1..Cardinality(keys) -> keys] :
        \A i, j \in 1..Cardinality(keys) : i # j => l[i] # l[j]}

\* lines 176-185: the participant a listed key is filed under, <<>> when the
\* key is skipped
ParticipantOf(key) ==
    IF ~EndsWith(key[Len(key)], ".json") THEN <<>>
    ELSE IF Len(key) >= 6 THEN <<Replace(key[6], "_json")>>
    ELSE <<>>

\* get_participant_representative_files: <<participant_id, key>> pairs in
\* dict insertion order, each participant with the first key listed for it
RECURSIVE RepresentativeFrom(_, _)
RepresentativeFrom(listing, acc) ==
    IF listing = <<>> THEN acc
    ELSE LET key == Head(listing)
             pid == ParticipantOf(key)
             seen == pid # <<>> /\ \E i \in 1..Len(acc) : acc[i][1] = pid[1]
         IN  RepresentativeFrom(Tail(listing),
                 IF pid = <<>> \/ seen THEN acc ELSE Append(acc, <<pid[1], key>>))

get_participant_representative_files(listing) == RepresentativeFrom(listing, <<>>)

\* load_participant_data: the parsed body, or None when get_object, decode
\* or json.loads raises
load_participant_data(bucket, file_key, fetchFail) ==
    IF file_key \in fetchFail \/ bucket[file_key].t = "garbage" THEN <<>>
    ELSE <<bucket[file_key]>>

\* `not data` at line 237: None, or a parsed body that is falsy
NotData(loaded) == loaded = <<>> \/ loaded[1].t = "empty"

\* lines 231-244: the rows accumulated from the representative files
RECURSIVE AllRows(_, _, _)
AllRows(bucket, rep_files, fetchFail) ==
    IF rep_files = <<>> THEN <<>>
    ELSE LET data == load_participant_data(bucket, Head(rep_files)[2], fetchFail)
             row == IF NotData(data) THEN <<>> ELSE extract_analysis_data(data[1])
         IN  row \o AllRows(bucket, Tail(rep_files), fetchFail)

\* the python value None of df_master, and a loaded table
NoTable == [loaded |-> FALSE, rows |-> <<>>]
Table(rows) == [loaded |-> TRUE, rows |-> rows]

\* what the storage service does during one build: a fault that aborts the
\* build (the missing S3 settings, credentials at head_bucket, the listing
\* request), the enumeration
\* order, the objects whose fetch fails
MaxFetchFailures == 1

NoEnv == [fault |-> "none", listing |-> <<>>, fetchFail |-> {}]
BuildEnvs(bucket) ==
    [fault : {"none"},
     listing : Listings(UnderPrefix(bucket)),
     fetchFail : {f \in SUBSET UnderPrefix(bucket) :
                     Cardinality(f) <= MaxFetchFailures}]
    \cup [fault : {"config", "credentials", "listing"},
          listing : {<<>>}, fetchFail : {{}}]

\* load_all_participant_data: [ok, df, failed]; ok = FALSE when it raises
load_all_participant_data(bucket, env) ==
    IF env.fault # "none"
    THEN [ok |-> FALSE, df |-> NoTable, failed |-> 0]
    ELSE LET rep_files == get_participant_representative_files(env.listing)
             all_rows == AllRows(bucket, rep_files, env.fetchFail)
         IN  IF PreprocessRaises(all_rows)
             THEN [ok |-> FALSE, df |-> NoTable, failed |-> Len(rep_files)]
             ELSE [ok |-> TRUE, df |-> Table(preprocess_dataframe(all_rows)),
                   failed |-> Len(rep_files) - Len(all_rows)]

\* load_data_if_needed without the `if df_master is None` test
load_data_always_builds(cache, bucket, env) ==
    LET b == load_all_participant_data(bucket, env)
    IN  IF b.ok THEN [ok |-> TRUE, cache |-> b.df, df |-> b.df, built |-> TRUE]
        ELSE [ok |-> FALSE, cache |-> cache, df |-> NoTable, built |-> TRUE]

\* load_data_if_needed that assigns df_master before the build has finished,
\* so that a build that raises leaves the rows gathered so far
load_data_caches_partial(cache, bucket, env) ==
    IF ~cache.loaded
    THEN LET b == load_all_participant_data(bucket, env)
         IN  IF b.ok THEN [ok |-> TRUE, cache |-> b.df, df |-> b.df, built |-> TRUE]
             ELSE [ok |-> FALSE, cache |-> Table(<<>>), df |-> NoTable,
                   built |-> TRUE]
    ELSE [ok |-> TRUE, cache |-> cache, df |-> cache, built |-> FALSE]

\* load_data_if_needed: [ok, cache, df, built]: the new value of df_master,
\* the table returned (when it does not raise), whether a build was run
load_data_if_needed(cache, bucket, env) ==
    IF ~cache.loaded
    THEN LET b == load_all_participant_data(bucket, env)
         IN  IF b.ok THEN [ok |-> TRUE, cache |-> b.df, df |-> b.df, built |-> TRUE]
             ELSE [ok |-> FALSE, cache |-> cache, df |-> NoTable, built |-> TRUE]
    ELSE [ok |-> TRUE, cache |-> cache, df |-> cache, built |-> FALSE]

-----------------------------------------------------------------------------
(* Filter: api_server.py:78-82, 259-275 *)

\* Optional[int] and Optional[List[str]] fields of FilterRequest
Unset == [set |-> FALSE, v |-> 0, items |-> <<>>]
OptInt(i) == [set |-> TRUE, v |-> i, items |-> <<>>]
OptList(l) == [set |-> TRUE, v |-> 0, items |-> l]

FilterRequest(age_min, age_max, locations, levels) ==
    [age_min |-> age_min, age_max |-> age_max,
     locations |-> locations, levels |-> levels]

\* Series.isin(list) of one cell
IsIn(v, items) == v.t = "str" /\ \E i \in 1..Len(items) : items[i] = v.s

\* apply_filters with an exclusive upper age bound
apply_filters_exclusive_max(df, filters) ==
    LET f1 == IF filters.age_min.set
              THEN SelectSeq(df, LAMBDA r : r.age.v >= filters.age_min.v) ELSE df
        f2 == IF filters.age_max.set
              THEN SelectSeq(f1, LAMBDA r : r.age.v < filters.age_max.v) ELSE f1
        f3 == IF filters.locations.set /\ filters.locations.items # <<>>
              THEN SelectSeq(f2, LAMBDA r : IsIn(r.location, filters.locations.items))
              ELSE f2
        f4 == IF filters.levels.set /\ filters.levels.items # <<>>
              THEN SelectSeq(f3, LAMBDA r : IsIn(r.english_level, filters.levels.items))
              ELSE f3
    IN  [df |-> df, filtered_df |-> f4]

\* apply_filters that returns the kept rows sorted the other way round
apply_filters_reversed(df, filters) ==
    LET f1 == IF filters.age_min.set
              THEN SelectSeq(df, LAMBDA r : r.age.v >= filters.age_min.v) ELSE df
        f2 == IF filters.age_max.set
              THEN SelectSeq(f1, LAMBDA r : r.age.v <= filters.age_max.v) ELSE f1
        f3 == IF filters.locations.set /\ filters.locations.items # <<>>
              THEN SelectSeq(f2, LAMBDA r : IsIn(r.location, filters.locations.items))
              ELSE f2
        f4 == IF filters.levels.set /\ filters.levels.items # <<>>
              THEN SelectSeq(f3, LAMBDA r : IsIn(r.english_level, filters.levels.items))
              ELSE f3
    IN  [df |-> df, filtered_df |-> [i \in 1..Len(f4) |-> f4[Len(f4) + 1 - i]]]

\* apply_filters whose age_max clause selects from df, not from filtered_df
apply_filters_from_df(df, filters) ==
    LET f1 == IF filters.age_min.set
              THEN SelectSeq(df, LAMBDA r : r.age.v >= filters.age_min.v) ELSE df
        f2 == IF filters.age_max.set
              THEN SelectSeq(df, LAMBDA r : r.age.v <= filters.age_max.v) ELSE f1
        f3 == IF filters.locations.set /\ filters.locations.items # <<>>
              THEN SelectSeq(f2, LAMBDA r : IsIn(r.location, filters.locations.items))
              ELSE f2
        f4 == IF filters.levels.set /\ filters.levels.items # <<>>
              THEN SelectSeq(f3, LAMBDA r : IsIn(r.english_level, filters.levels.items))
              ELSE f3
    IN  [df |-> df, filtered_df |-> f4]

\* apply_filters that filters the frame it was given in place
apply_filters_in_place(df, filters) ==
    LET f1 == IF filters.age_min.set
              THEN SelectSeq(df, LAMBDA r : r.age.v >= filters.age_min.v) ELSE df
        f2 == IF filters.age_max.set
              THEN SelectSeq(f1, LAMBDA r : r.age.v <= filters.age_max.v) ELSE f1
        f3 == IF filters.locations.set /\ filters.locations.items # <<>>
              THEN SelectSeq(f2, LAMBDA r : IsIn(r.location, filters.locations.items))
              ELSE f2
        f4 == IF filters.levels.set /\ filters.levels.items # <<>>
              THEN SelectSeq(f3, LAMBDA r : IsIn(r.english_level, filters.levels.items))
              ELSE f3
    IN  [df |-> f4, filtered_df |-> f4]

\* apply_filters that tests the two allow-lists with `is not None`
apply_filters_empty_list_excludes(df, filters) ==
    LET f0 == df
        f1 == IF filters.age_min.set
              THEN SelectSeq(f0, LAMBDA r : r.age.v >= filters.age_min.v) ELSE f0
        f2 == IF filters.age_max.set
              THEN SelectSeq(f1, LAMBDA r : r.age.v <= filters.age_max.v) ELSE f1
        f3 == IF filters.locations.set
              THEN SelectSeq(f2, LAMBDA r : IsIn(r.location, filters.locations.items))
              ELSE f2
        f4 == IF filters.levels.set
              THEN SelectSeq(f3, LAMBDA r : IsIn(r.english_level, filters.levels.items))
              ELSE f3
    IN  [df |-> df, filtered_df |-> f4]

\* apply_filters: [df, filtered_df]: the frame passed in as it is after the
\* call (the function works on df.copy()), and the frame returned
apply_filters(df, filters) ==
    LET f0 == df
        f1 == IF filters.age_min.set
              THEN SelectSeq(f0, LAMBDA r : r.age.v >= filters.age_min.v) ELSE f0
        f2 == IF filters.age_max.set
              THEN SelectSeq(f1, LAMBDA r : r.age.v <= filters.age_max.v) ELSE f1
        f3 == IF filters.locations.set /\ filters.locations.items # <<>>
              THEN SelectSeq(f2, LAMBDA r : IsIn(r.location, filters.locations.items))
              ELSE f2
        f4 == IF filters.levels.set /\ filters.levels.items # <<>>
              THEN SelectSeq(f3, LAMBDA r : IsIn(r.english_level, filters.levels.items))
              ELSE f3
    IN  [df |-> df, filtered_df |-> f4]

-----------------------------------------------------------------------------
(* Hypothesis verdicts: api_server.py:377-388, 426-437, 480-491 *)

\* The statistics library is opaque: a p-value is a number of thousandths or
\* NaN, a correlation coefficient a number of hundredths or NaN.  Every
\* comparison with NaN is false.
Alpha == 50

Lt(a, b) == ~a.nan /\ ~b.nan /\ a.v < b.v
Gt(a, b) == ~a.nan /\ ~b.nan /\ a.v > b.v

H1Conclusion(p_pearson, corr_pearson) ==
    IF Lt(p_pearson, Num(Alpha))
    THEN IF Lt(corr_pearson, Num(0)) THEN "rejected: older is better"
         ELSE "accepted: younger is better"
    ELSE "undecided: no significant relation"

\* the result label with `p <= 0.05` for significance
H1ResultInclusive(p_pearson, corr_pearson) ==
    IF ~Gt(p_pearson, Num(Alpha)) /\ Lt(corr_pearson, Num(0)) THEN "rejected"
    ELSE IF ~Gt(p_pearson, Num(Alpha)) /\ Gt(corr_pearson, Num(0)) THEN "accepted"
    ELSE "undecided"

H1Result(p_pearson, corr_pearson) ==
    IF Lt(p_pearson, Num(Alpha)) /\ Lt(corr_pearson, Num(0)) THEN "rejected"
    ELSE IF Lt(p_pearson, Num(Alpha)) /\ Gt(corr_pearson, Num(0)) THEN "accepted"
    ELSE "undecided"

RECURSIVE SumScores(_)
SumScores(rows) ==
    IF rows = <<>> THEN 0
    ELSE Head(rows).english_level_numeric.v + SumScores(Tail(rows))

\* a.mean() < b.mean() for two non-empty samples, without division
MeanLt(a, b) == SumScores(a) * Len(b) < SumScores(b) * Len(a)

\* H2 and H3: a is the flagged group (metropolitan / experience), b the other
GroupConclusion(p_ttest, a, b) ==
    IF Lt(p_ttest, Num(Alpha))
    THEN IF MeanLt(a, b) THEN "accepted: flagged group is better"
         ELSE "rejected: other group is better"
    ELSE "undecided: no significant difference"

\* the result label with the two means compared the other way round
GroupResultSwapped(p_ttest, a, b) ==
    IF Lt(p_ttest, Num(Alpha)) /\ MeanLt(a, b) THEN "rejected"
    ELSE IF Lt(p_ttest, Num(Alpha)) /\ MeanLt(b, a) THEN "accepted"
    ELSE "undecided"

GroupResult(p_ttest, a, b) ==
    IF Lt(p_ttest, Num(Alpha)) /\ MeanLt(b, a) THEN "rejected"
    ELSE IF Lt(p_ttest, Num(Alpha)) /\ MeanLt(a, b) THEN "accepted"
    ELSE "undecided"

\* the values the statistics library may return in the model
PValues == {NaN, Num(10), Num(50), Num(900)}
RValues == {NaN, Num(-40), Num(0), Num(40)}
OtherPValues == {Num(10), Num(900)}

\* p, r: the Pearson (H1) or t-test (H2, H3) p-value and the Pearson
\* coefficient; p_other: the p-value of the other tests of the handler
\* (Spearman and ANOVA, Mann-Whitney and chi-square)
Stats == [p : PValues, r : RValues, p_other : OtherPValues]

\* the statistics of a response: the library's values and, for H2 and H3,
\* the two groups' counts and score sums (mean = sum / count)
NoStats ==
    [p |-> NaN, r |-> NaN, p_other |-> NaN,
     count_a |-> 0, sum_a |-> 0, count_b |-> 0, sum_b |-> 0]
H1Stats(st) == [NoStats EXCEPT !.p = st.p, !.r = st.r, !.p_other = st.p_other]
GroupStats(st, a, b) ==
    [NoStats EXCEPT !.p = st.p, !.p_other = st.p_other,
                    !.count_a = Len(a), !.sum_a = SumScores(a),
                    !.count_b = Len(b), !.sum_b = SumScores(b)]

MinRowsH1 == 10
MinGroupRows == 5

-----------------------------------------------------------------------------
(* The query service's handlers: api_server.py:287-537 *)

\* the request body of a handler that takes none, or an empty body
NoFilters == FilterRequest(Unset, Unset, Unset, Unset)

\* a response, with the request it answers and what the handler did to
\* produce it: cached (df_master held a table when it started), built (it
\* ran a build), ok (the load returned), df (the table the load returned),
\* filters (the request body), view (the frame apply_filters returned)
NoResponse ==
    [op |-> "none", status |-> 0, cached |-> FALSE, built |-> FALSE,
     ok |-> FALSE, df |-> NoTable, n |-> 0, result |-> "",
     filters |-> NoFilters, view |-> <<>>, stats |-> NoStats,
     conclusion |-> "", error |-> ""]

Response(op, status, r, n, result) ==
    [NoResponse EXCEPT !.op = op, !.status = status,
                       !.cached = df_master.loaded, !.built = r.built,
                       !.ok = r.ok, !.df = r.df, !.n = n, !.result = result]

QueryOps == {"health", "summary", "locations", "levels", "hypothesis1",
             "hypothesis2", "hypothesis3", "chart_data"}

\* the storage behaviours a handler started now can meet
EnvsNow == IF df_master.loaded THEN {NoEnv} ELSE BuildEnvs(storage)

\* what a handler does once load_data_if_needed has returned r: the frame
\* behind df_master as the handler leaves it, the status and the body
Outcome(df, status, n, result) ==
    [df |-> df, status |-> status, n |-> n, result |-> result,
     filters |-> NoFilters, view |-> <<>>, stats |-> NoStats,
     conclusion |-> "", error |-> ""]

\* the outcome of a handler that filtered: its request and filtered frame
Filtered(out, filters, a) ==
    [out EXCEPT !.filters = filters, !.view = a.filtered_df]

\* the message of the exception a failed build raises
ErrorOf(env) == IF env.fault = "none" THEN "KeyError" ELSE env.fault

Failed(r, env) ==
    [Outcome(r.cache.rows, 500, 0, env.fault) EXCEPT !.error = ErrorOf(env)]

\* health_check without its try/except: the exception of the load propagates
HealthOutcomesRaising(r, env) ==
    IF r.ok THEN {Outcome(r.cache.rows, 200, Len(r.df.rows), "healthy")}
    ELSE {Failed(r, env)}

\* GET /health (lines 299-315): an exception of the load becomes "unhealthy"
HealthOutcomes(r, env) ==
    IF r.ok THEN {Outcome(r.cache.rows, 200, Len(r.df.rows), "healthy")}
    ELSE {[Outcome(r.cache.rows, 200, 0, "unhealthy") EXCEPT !.error = ErrorOf(env)]}

\* POST /data/summary (lines 317-334) and POST /data/chart_data (lines 511-537)
FilteredOutcomes(r, env, filters) ==
    IF ~r.ok THEN {[Failed(r, env) EXCEPT !.filters = filters]}
    ELSE LET a == apply_filters(r.df.rows, filters)
         IN  IF Len(a.filtered_df) = 0
             THEN {Filtered(Outcome(a.df, 400, 0, "no matching data"), filters, a)}
             ELSE {Filtered(Outcome(a.df, 200, Len(a.filtered_df), "ok"),
                            filters, a)}

\* the distinct non-empty values of a column, as a set
Distinct(rows, col) == {rows[i][col] : i \in {j \in 1..Len(rows) : Truthy(rows[j][col])}}

\* GET /data/locations (lines 336-344) and GET /data/levels (lines 346-354)
ListOutcomes(r, env, col) ==
    IF ~r.ok THEN {Failed(r, env)}
    ELSE {Outcome(r.cache.rows, 200, Cardinality(Distinct(r.df.rows, col)), "ok")}

\* analyze_hypothesis1 with `<=` in the sample-size test
H1OutcomesInclusive(r, env, filters) ==
    IF ~r.ok THEN {[Failed(r, env) EXCEPT !.filters = filters]}
    ELSE LET a == apply_filters(r.df.rows, filters)
         IN  IF Len(a.filtered_df) <= MinRowsH1
             THEN {Filtered(Outcome(a.df, 400, 0, "insufficient data"), filters, a)}
             ELSE {[Filtered(Outcome(a.df, 200, Len(a.filtered_df),
                                     H1Result(st.p, st.r)), filters, a)
                       EXCEPT !.stats = H1Stats(st),
                              !.conclusion = H1Conclusion(st.p, st.r)] :
                      st \in Stats}

\* POST /analysis/hypothesis1 (lines 356-401)
H1Outcomes(r, env, filters) ==
    IF ~r.ok THEN {[Failed(r, env) EXCEPT !.filters = filters]}
    ELSE LET a == apply_filters(r.df.rows, filters)
         IN  IF Len(a.filtered_df) < MinRowsH1
             THEN {Filtered(Outcome(a.df, 400, 0, "insufficient data"), filters, a)}
             ELSE {[Filtered(Outcome(a.df, 200, Len(a.filtered_df),
                                     H1Result(st.p, st.r)), filters, a)
                       EXCEPT !.stats = H1Stats(st),
                              !.conclusion = H1Conclusion(st.p, st.r)] :
                      st \in Stats}

\* POST /analysis/hypothesis2 (lines 403-455), /analysis/hypothesis3 (457-509)
GroupOutcomes(r, env, flag, filters) ==
    IF ~r.ok THEN {[Failed(r, env) EXCEPT !.filters = filters]}
    ELSE LET a == apply_filters(r.df.rows, filters)
             g1 == SelectSeq(a.filtered_df, LAMBDA row : row[flag] = TRUE)
             g2 == SelectSeq(a.filtered_df, LAMBDA row : row[flag] = FALSE)
         IN  IF Len(g1) < MinGroupRows \/ Len(g2) < MinGroupRows
             THEN {Filtered(Outcome(a.df, 400, 0, "insufficient data"), filters, a)}
             ELSE {[Filtered(Outcome(a.df, 200, Len(a.filtered_df),
                                     GroupResult(st.p, g1, g2)), filters, a)
                       EXCEPT !.stats = GroupStats(st, g1, g2),
                              !.conclusion = GroupConclusion(st.p, g1, g2)] :
                      st \in Stats}

\* a query handler: load_data_if_needed, then the handler's own work; the
\* frame it worked on is the object df_master refers to
Handle(op, r, out) ==
    /\ df_master' = IF r.ok THEN Table(out.df) ELSE r.cache
    /\ response' = [Response(op, out.status, r, out.n, out.result)
                        EXCEPT !.filters = out.filters, !.view = out.view,
                               !.stats = out.stats,
                               !.conclusion = out.conclusion,
                               !.error = out.error]
    /\ stale' = IF r.built /\ r.ok THEN FALSE ELSE stale
    /\ UNCHANGED <<storage, dagVars>>

Loads == {<<env, load_data_if_needed(df_master, storage, env)>> : env \in EnvsNow}

health_check ==
    \E l \in Loads : \E out \in HealthOutcomes(l[2], l[1]) :
        Handle("health", l[2], out)

get_data_summary(filters) ==
    \E l \in Loads : \E out \in FilteredOutcomes(l[2], l[1], filters) :
        Handle("summary", l[2], out)

get_locations ==
    \E l \in Loads : \E out \in ListOutcomes(l[2], l[1], "location") :
        Handle("locations", l[2], out)

get_levels ==
    \E l \in Loads : \E out \in ListOutcomes(l[2], l[1], "english_level") :
        Handle("levels", l[2], out)

analyze_hypothesis1(filters) ==
    \E l \in Loads : \E out \in H1Outcomes(l[2], l[1], filters) :
        Handle("hypothesis1", l[2], out)

analyze_hypothesis2(filters) ==
    \E l \in Loads : \E out \in GroupOutcomes(l[2], l[1], "is_metropolitan", filters) :
        Handle("hypothesis2", l[2], out)

analyze_hypothesis3(filters) ==
    \E l \in Loads :
        \E out \in GroupOutcomes(l[2], l[1], "english_speaking_experience", filters) :
            Handle("hypothesis3", l[2], out)

get_chart_data(filters) ==
    \E l \in Loads : \E out \in FilteredOutcomes(l[2], l[1], filters) :
        Handle("chart_data", l[2], out)

\* /reload without the `df_master = None` line
ReloadKeepsCache(env) ==
    \E r \in {load_data_if_needed(df_master, storage, env)} :
        /\ df_master' = r.cache
        /\ response' = [Response("reload", IF r.ok THEN 200 ELSE 500, r,
                                 Len(r.df.rows),
                                 IF r.ok THEN "reloaded" ELSE env.fault)
                            EXCEPT !.error = IF r.ok THEN "" ELSE ErrorOf(env)]
        /\ stale' = FALSE

\* /reload that puts the table cached before back when its build raises
ReloadRestoresCache(env) ==
    \E r \in {load_data_if_needed(NoTable, storage, env)} :
        /\ df_master' = IF r.ok THEN r.cache ELSE df_master
        /\ response' = [Response("reload", IF r.ok THEN 200 ELSE 500, r,
                                 Len(r.df.rows),
                                 IF r.ok THEN "reloaded" ELSE env.fault)
                            EXCEPT !.error = IF r.ok THEN "" ELSE ErrorOf(env)]
        /\ stale' = FALSE

\* POST /reload (lines 287-297): df_master = None, then load_data_if_needed
ReloadEffect(env) ==
    \E r \in {load_data_if_needed(NoTable, storage, env)} :
        /\ df_master' = r.cache
        /\ response' = [Response("reload", IF r.ok THEN 200 ELSE 500, r,
                                 Len(r.df.rows),
                                 IF r.ok THEN "reloaded" ELSE env.fault)
                            EXCEPT !.error = IF r.ok THEN "" ELSE ErrorOf(env)]
        /\ stale' = FALSE

reload_data ==
    \E env \in BuildEnvs(storage) :
        /\ ReloadEffect(env)
        /\ UNCHANGED <<storage, dagVars>>

-----------------------------------------------------------------------------
(* The ingestion stager: daily_data_pipeline.py:33-176 *)

\* a parsed JSON document as the two programs read it
Speaker(id, age, location, final, combos, answer) ==
    [t |-> "dict", id |-> id, age |-> age, location |-> location,
     level |-> [t |-> "dict", final |-> final, combos |-> combos],
     interview |-> [t |-> "dict", answer |-> answer]]

Document(speaker, date) ==
    [t |-> "dict", speaker |-> speaker,
     metadata |-> [t |-> "dict", date |-> date]]

\* is_valid_yyyymmdd: strptime(date_str, "%Y%m%d") succeeds
is_valid_yyyymmdd(date_str) ==
    /\ Len(date_str) = 8
    /\ IsNumeric(date_str)
    /\ ParseInt(SubSeq(date_str, 5, 6)) \in 1..12
    /\ ParseInt(SubSeq(date_str, 7, 8)) \in 1..31

\* the date a file of the local tree carries, <<>> when reading it raises
\* or it has none (lines 61-64)
FileDate(content) ==
    IF content.t \notin {"dict"} \/ content.metadata.t = "other" THEN <<>>
    ELSE IF content.metadata.t = "missing" THEN <<>>
    ELSE IF content.metadata.date.t # "str" THEN <<>>
    ELSE <<content.metadata.date.s>>

\* find_files_by_date over the local tree `dataset` (a sequence of files
\* [level, participant, file_name, content])
find_files_by_date(dataset, target_date) ==
    SelectSeq(dataset, LAMBDA f :
        /\ FileDate(f.content) # <<>>
        /\ FileDate(f.content)[1] # <<>>
        /\ FileDate(f.content)[1] = target_date
        /\ is_valid_yyyymmdd(FileDate(f.content)[1]))

\* line 113: the storage key of a matching file
s3_key(file_info, file_date) ==
    <<RawPrefix,
      <<"year=">> \o SubSeq(file_date, 1, 4),
      <<"month=">> \o SubSeq(file_date, 5, 6),
      <<"day=">> \o SubSeq(file_date, 7, 8),
      <<"level=", file_info.level>>,
      file_info.participant,
      file_info.file_name>>

\* What the storage service does for one file: head_object answers exactly
\* ("exact": returns when the object exists, ClientError 404 when not) or
\* fails with another ClientError ("error": 403, 5xx); upload_file stores
\* the object ("ok") or raises ("fail").
FileOutcomes == [head : {"exact", "error"}, put : {"ok", "fail"}]

\* lines 105-128: the loop over matching_files; acc is [bucket, count]
RECURSIVE UploadLoop(_, _, _, _)
UploadLoop(matching_files, outcome, i, acc) ==
    IF i > Len(matching_files) THEN acc
    ELSE LET f == matching_files[i]
             key == s3_key(f, FileDate(f.content)[1])
             skip == \/ ~is_valid_yyyymmdd(FileDate(f.content)[1])
                     \/ outcome[i].head = "exact" /\ key \in DOMAIN acc.bucket
             stored == ~skip /\ outcome[i].put = "ok"
         IN  UploadLoop(matching_files, outcome, i + 1,
                 IF stored
                 THEN [bucket |-> [k \in DOMAIN acc.bucket \cup {key} |->
                                      IF k = key THEN f.content ELSE acc.bucket[k]],
                       count |-> acc.count + 1]
                 ELSE acc)

\* The local tree /opt/airflow/dataset of the model: participant P1 assessed
\* on two dates, participant P2 on the first.
Day1 == <<"2", "0", "2", "5", "0", "8", "0", "1">>
Day2 == <<"2", "0", "2", "5", "0", "8", "0", "2">>

Dataset ==
    << [level |-> "IG", participant |-> <<"P1", "_json">>,
        file_name |-> <<"a", ".json">>,
        content |-> Document(Speaker(JStr(<<"P1">>), JInt(23),
                                     JStr(<<"Seoul", "Gangnam">>), JStr(<<"IG">>),
                                     <<>>, JStr(<<"yes">>)), JStr(Day1))],
       [level |-> "NA", participant |-> <<"P2", "_json">>,
        file_name |-> <<"a", ".json">>,
        content |-> Document(Speaker(JStr(<<"P2">>), JStr(<<"4", "1">>),
                                     JStr(<<"Busan">>), JStr(<<"NA">>),
                                     <<>>, JStr(<<"no">>)), JStr(Day1))],
       [level |-> "IG", participant |-> <<"P1", "_json">>,
        file_name |-> <<"b", ".json">>,
        content |-> Document(Speaker(JStr(<<"P1">>), JInt(24),
                                     JStr(<<"Seoul", "Gangnam">>), JStr(<<"TL">>),
                                     <<>>, JStr(<<"yes">>)), JStr(Day2))] >>

\* context['ds'] of a run: YYYY-MM-DD
ExecutionDates ==
    { <<"2", "0", "2", "5", "-", "0", "8", "-", "0", "1">>,
      <<"2", "0", "2", "5", "-", "0", "8", "-", "0", "2">> }

MaxRuns == 2

EmptyBucket == [k \in {} |-> None]

\* upload_to_s3 (lines 80-131), the first task of a run
upload_to_s3 ==
    /\ task = "upload_to_s3"
    /\ runs < MaxRuns
    /\ \E execution_date \in ExecutionDates :
        LET current_date == Replace(execution_date, "-")
            matching_files == find_files_by_date(Dataset, current_date)
        IN  \E outcome \in [1..Len(matching_files) -> FileOutcomes] :
                LET done == UploadLoop(matching_files, outcome, 1,
                                [bucket |-> storage, count |-> 0])
                IN  /\ storage' = done.bucket
                    /\ xcom' = [uploaded_files |-> done.count]
                    /\ ds' = execution_date
                    /\ stale' = (stale \/ (df_master.loaded /\ done.count > 0))
    /\ task' = "trigger_analysis"
    /\ runs' = runs + 1
    /\ calls' = <<>>
    /\ UNCHANGED <<df_master, response>>

\* trigger_analysis (lines 134-141): returns the upload result or None
trigger_analysis ==
    /\ task = "trigger_analysis"
    /\ task' = "call_analysis_api"
    /\ UNCHANGED <<storage, xcom, ds, runs, calls, apiVars>>

\* the routes of the query service that accept a POST (api_server.py:287-511)
PostRoutes == {"/reload", "/data/summary", "/analysis/hypothesis1",
               "/analysis/hypothesis2", "/analysis/hypothesis3",
               "/data/chart_data"}

\* the two requests of call_analysis_api (lines 149-169)
NewDataRequest(upload_result) ==
    [path |-> "/analyze/new-data", file_count |-> upload_result.uploaded_files,
     execution_date |-> <<>>]
RefreshRequest(upload_result, execution_date) ==
    [path |-> "/refresh", file_count |-> upload_result.uploaded_files,
     execution_date |-> execution_date]

\* what the requests sent do to the query service: of its POST routes only
\* /reload touches the cache, and a path it does not route changes nothing
Deliver(sent) ==
    IF \E i \in 1..Len(sent) : sent[i].path \in PostRoutes /\ sent[i].path = "/reload"
    THEN \E env \in BuildEnvs(storage) : ReloadEffect(env)
    ELSE UNCHANGED apiVars

\* call_analysis_api (lines 144-176): both requests in one try block; a
\* request fails ("fail") when it raises or raise_for_status() does
call_analysis_api ==
    /\ task = "call_analysis_api"
    /\ IF xcom.uploaded_files > 0
       THEN \E first, second \in {"ok", "fail"} :
               LET sent == <<NewDataRequest(xcom)>> \o
                           (IF first = "ok" THEN <<RefreshRequest(xcom, ds)>>
                            ELSE <<>>)
               IN  calls' = sent /\ Deliver(sent)
       ELSE calls' = <<>> /\ UNCHANGED apiVars
    /\ task' = "done"
    /\ UNCHANGED <<storage, xcom, ds, runs>>

\* the scheduler starts the next daily run
next_run ==
    /\ task = "done"
    /\ runs < MaxRuns
    /\ task' = "upload_to_s3"
    /\ UNCHANGED <<storage, xcom, ds, runs, calls, apiVars>>

-----------------------------------------------------------------------------
(* The system *)

\* the filter predicates the dashboard sends in the model
FilterRequests ==
    { FilterRequest(Unset, Unset, Unset, Unset),
      FilterRequest(OptInt(24), Unset, OptList(<< <<"Busan">> >>), OptList(<<>>)) }

Init ==
    /\ storage = EmptyBucket
    /\ df_master = NoTable
    /\ response = NoResponse
    /\ stale = FALSE
    /\ task = "upload_to_s3"
    /\ ds = <<>>
    /\ xcom = [uploaded_files |-> 0]
    /\ calls = <<>>
    /\ runs = 0

Next ==
    \/ reload_data
    \/ health_check
    \/ \E filters \in FilterRequests : get_data_summary(filters)
    \/ get_locations
    \/ get_levels
    \/ \E filters \in FilterRequests : analyze_hypothesis1(filters)
    \/ \E filters \in FilterRequests : analyze_hypothesis2(filters)
    \/ \E filters \in FilterRequests : analyze_hypothesis3(filters)
    \/ \E filters \in FilterRequests : get_chart_data(filters)
    \/ upload_to_s3
    \/ trigger_analysis
    \/ call_analysis_api
    \/ next_run

Spec == Init /\ [][Next]_vars

-----------------------------------------------------------------------------
(* The build over arbitrary bucket contents *)

\* a well-formed record, and the records that differ from it in one field
BaseSpeaker ==
    Speaker(JStr(<<"P1">>), JInt(30), JStr(<<"Seoul">>), JStr(<<"IG">>),
            <<>>, JStr(<<"yes">>))

Ages == {Missing, None, EmptyStr, JInt(0), JInt(30), JStr(<<"3", "0">>),
         JStr(<<"x">>)}
Locations == {Missing, None, EmptyStr, JStr(<<"Seoul">>)}
Finals == {Missing, None, EmptyStr, JStr(<<"IG">>), JStr(<<"NA">>),
           JStr(<<"XX">>), JStr(<<"IG", " ">>)}
Ids == {Missing, JStr(<<"P1">>), JStr(<<"P2">>)}

Speakers ==
    {[BaseSpeaker EXCEPT !.age = a] : a \in Ages}
    \cup {[BaseSpeaker EXCEPT !.location = l] : l \in Locations}
    \cup {[BaseSpeaker EXCEPT !.level.final = f] : f \in Finals}
    \cup {[BaseSpeaker EXCEPT !.id = i] : i \in Ids}
    \cup {[BaseSpeaker EXCEPT !.level = [t |-> "other", final |-> Missing,
                                        combos |-> <<>>]]}

\* the bodies an object may hold: documents, a body json.loads rejects,
\* an empty document, a document that is no mapping
Bodies ==
    {Document(sp, JStr(Day1)) : sp \in Speakers}
    \cup {[t |-> tag, speaker |-> BaseSpeaker,
           metadata |-> [t |-> "dict", date |-> JStr(Day1)]] :
          tag \in {"garbage", "empty"}}

\* keys of three participant directories, two of which name one participant
BuildKeys ==
    {s3_key([level |-> "IG", participant |-> dir, file_name |-> <<"a", ".json">>],
            Day1) : dir \in {<<"P1", "_json">>, <<"P2", "_json">>, <<"P1">>}}

MaxObjects == 2

Buckets ==
    UNION {[keys -> Bodies] :
              keys \in {k \in SUBSET BuildKeys : Cardinality(k) <= MaxObjects}}

InitBuild ==
    /\ storage \in Buckets
    /\ df_master = NoTable
    /\ response = NoResponse
    /\ stale = FALSE
    /\ task = "upload_to_s3"
    /\ ds = <<>>
    /\ xcom = [uploaded_files |-> 0]
    /\ calls = <<>>
    /\ runs = 0

NextBuild == reload_data

SpecBuild == InitBuild /\ [][NextBuild]_vars

-----------------------------------------------------------------------------
(* The query handlers over cached tables of assessed cohorts *)

\* the ages of the participants of a cohort, in order of enrolment
CohortAges ==
    <<JInt(24), JInt(25), JInt(29), JInt(30), JInt(34), JInt(35), JInt(39),
      JInt(40), JInt(23), JStr(<<"4", "1">>)>>

\* participant i of a cohort: the first m live in the capital area; every
\* other participant has lived in an English-speaking country
Participant(i, c) ==
    Document(Speaker(JStr(<<"P", ToString(i)>>),
                     CohortAges[((i - 1) % Len(CohortAges)) + 1],
                     IF i <= c.m THEN JStr(<<"Seoul", "Gangnam">>)
                     ELSE JStr(<<"Busan">>),
                     IF i <= c.m THEN JStr(<<c.level_m>>) ELSE JStr(<<c.level_n>>),
                     <<>>,
                     IF i % 2 = 1 THEN JStr(<<"yes">>) ELSE JStr(<<"no">>)),
             JStr(Day1))

ParticipantKey(i) ==
    s3_key([level |-> "IG", participant |-> <<"P", ToString(i), "_json">>,
            file_name |-> <<"a", ".json">>], Day1)

\* m participants of the capital area with level level_m, n others with
\* level level_n
Cohorts ==
    {[m |-> size[1], n |-> size[2], level_m |-> lv[1], level_n |-> lv[2]] :
        size \in {<<5, 5>>, <<4, 10>>, <<5, 0>>, <<5, 4>>, <<6, 5>>},
        lv \in {<<"IG", "NA">>, <<"NA", "IG">>, <<"TM", "TM">>}}

CohortBucket(c) ==
    [key \in {ParticipantKey(i) : i \in 1..(c.m + c.n)} |->
        Participant(CHOOSE i \in 1..(c.m + c.n) : ParticipantKey(i) = key, c)]

\* the table a build of the cohort's bucket returns when every fetch succeeds
CohortTable(c) ==
    load_all_participant_data(CohortBucket(c),
        [fault |-> "none", listing |-> [i \in 1..(c.m + c.n) |-> ParticipantKey(i)],
         fetchFail |-> {}]).df

\* the filter predicates sent to the handlers
QueryFilters ==
    { NoFilters,
      FilterRequest(Unset, OptInt(40), Unset, Unset),
      FilterRequest(OptInt(25), OptInt(35), Unset, Unset),
      FilterRequest(Unset, Unset, OptList(<< <<"Busan">> >>), OptList(<<>>)),
      FilterRequest(OptInt(25), Unset, OptList(<<>>), OptList(<< <<"IG">> >>)),
      FilterRequest(Unset, Unset, OptList(<< <<"Seoul", "Gangnam">>, <<"Busan">> >>),
                    OptList(<< <<"NA">>, <<"TM">> >>)) }

InitQuery ==
    /\ \E c \in Cohorts :
          /\ storage = CohortBucket(c)
          /\ df_master = CohortTable(c)
    /\ response = NoResponse
    /\ stale = FALSE
    /\ task = "upload_to_s3"
    /\ ds = <<>>
    /\ xcom = [uploaded_files |-> 0]
    /\ calls = <<>>
    /\ runs = 0

NextQuery ==
    \/ health_check
    \/ \E filters \in QueryFilters : get_data_summary(filters)
    \/ get_locations
    \/ get_levels
    \/ \E filters \in QueryFilters : analyze_hypothesis1(filters)
    \/ \E filters \in QueryFilters : analyze_hypothesis2(filters)
    \/ \E filters \in QueryFilters : analyze_hypothesis3(filters)
    \/ \E filters \in QueryFilters : get_chart_data(filters)

SpecQuery == InitQuery /\ [][NextQuery]_vars

-----------------------------------------------------------------------------
(* The build over records that carry combo scores *)

\* the keys and values of the entries of a level block next to 'final'
ComboKeys == {<<"Combo", "1">>, <<"Combo", "2">>, <<"grade">>}
ComboValues == {EmptyStr, None, JInt(3), JStr(<<"7">>), JStr(<<"x">>)}

MaxCombos == 2

\* the level blocks of at most MaxCombos entries with distinct keys
ComboBlocks ==
    UNION {{combos \in [1..n -> [k : ComboKeys, v : ComboValues]] :
               \A i, j \in 1..n : i # j => combos[i].k # combos[j].k} :
           n \in 0..MaxCombos}

\* records with valid age, location and level, and any such level block
ScoredSpeakers == {[BaseSpeaker EXCEPT !.level.combos = combos] : combos \in ComboBlocks}

InitExtract ==
    /\ \E sp \in ScoredSpeakers :
          storage = [key \in {ParticipantKey(1)} |-> Document(sp, JStr(Day1))]
    /\ df_master = NoTable
    /\ response = NoResponse
    /\ stale = FALSE
    /\ task = "upload_to_s3"
    /\ ds = <<>>
    /\ xcom = [uploaded_files |-> 0]
    /\ calls = <<>>
    /\ runs = 0

NextExtract == reload_data

SpecExtract == InitExtract /\ [][NextExtract]_vars

-----------------------------------------------------------------------------
(* Properties *)

\* a step of a query handler (every task of the DAG moves `task`)
QueryStep == task' = task /\ response'.op \in QueryOps
ReloadStep == task' = task /\ response'.op = "reload"

\* df is the table some build of the bucket that runs to its end returns
FreshTable(df, bucket) ==
    \E env \in BuildEnvs(bucket) :
        \E b \in {load_all_participant_data(bucket, env)} : b.ok /\ b.df = df

\* C1 (as amended): a query answered with a table in the cache returns that
\* table and runs no build; a query that finds the cache absent runs one
\* build and stores its table if the build completes, and leaves the cache
\* absent if it raises; after a query that returned a table, the next query
\* (no reload in between) runs no build and returns the same table.
C1_GetOrBuild ==
    [][QueryStep =>
        /\ df_master.loaded =>
             /\ ~response'.built /\ response'.ok
             /\ response'.df = df_master /\ df_master' = df_master
        /\ ~df_master.loaded =>
             /\ response'.built
             /\ response'.ok => df_master' = response'.df /\ df_master'.loaded
             /\ ~response'.ok => df_master' = NoTable
        /\ (response.op \in QueryOps /\ response.ok) =>
             ~response'.built /\ response'.df = response.df]_vars

\* a query was answered from a cached table of two rows without a build
C1_Witness ==
    /\ response.op \in QueryOps /\ response.cached /\ ~response.built
    /\ response.ok /\ response.df = df_master /\ Len(df_master.rows) = 2

\* C1 as stated: in a sequence of query calls with no reload in between at
\* most one build happens (a query that follows a query that built builds
\* nothing).
C1_AtMostOneBuild ==
    [][(QueryStep /\ response.op \in QueryOps /\ response.built) =>
          ~response'.built]_vars

\* C2: /reload runs a build whether or not a table was cached; when the build
\* completes the cache holds the table just built from the bucket and
\* record_count is its number of rows.
C2_Reload ==
    [][ReloadStep =>
        /\ response'.built
        /\ response'.ok =>
             /\ df_master'.loaded /\ df_master' = response'.df /\ ~stale'
             /\ response'.status = 200 /\ response'.n = Len(df_master'.rows)]_vars

\* /reload replaced a cached table by a rebuilt one of two rows
C2_Witness ==
    /\ response.op = "reload" /\ response.cached /\ response.built /\ response.ok
    /\ response.n = 2 /\ df_master.loaded /\ Len(df_master.rows) = 2

\* C3: a query handler that starts with a table cached leaves the cache as
\* it found it, whatever its filter and whether it answers or rejects.
C3_QueriesKeepCache ==
    [][(QueryStep /\ df_master.loaded) => df_master' = df_master]_vars

\* a filtered query kept fewer rows than the cache holds, and a hypothesis
\* was rejected for lack of rows, with the cache in place
C3_Witness ==
    /\ df_master.loaded /\ response.cached /\ response.df = df_master
    /\ \/ response.op = "summary" /\ response.status = 200
          /\ response.n < Len(df_master.rows)
       \/ response.op = "hypothesis2" /\ response.status = 400
          /\ Len(df_master.rows) = 2

\* C4: the cache only ever changes to absent or to the table a build that
\* ran to its end returned to its handler (the last build to write wins),
\* and a cached table that no upload has followed is the whole table of a
\* finished build of the bucket.
C4_WholeSnapshot ==
    /\ []((df_master.loaded /\ ~stale) => FreshTable(df_master, storage))
    /\ [][/\ df_master' # df_master =>
               \/ df_master' = NoTable
               \/ /\ task' = task /\ response'.built /\ response'.ok
                  /\ df_master' = response'.df
          /\ (task' = task /\ response'.built /\ response'.ok) =>
               df_master' = response'.df]_vars

\* a rebuild that raised left the cache absent where a table had been
C4_Witness ==
    /\ response.op = "reload" /\ response.cached /\ response.built
    /\ ~response.ok /\ df_master = NoTable

\* C5 as stated: once a run that uploaded files has sent its invalidation
\* request, the cache holds no table built before the upload.
C5_InvalidatedAfterUpload ==
    (task = "done" /\ xcom.uploaded_files > 0 /\ Len(calls) = 2) => ~stale

\* C6 as stated: a run that uploaded nothing sends no request, and a run that
\* uploaded files sends both the new-data announcement and the invalidation
\* request, the latter with the execution date and the uploaded count.
C6_BothCallsMade ==
    task = "done" =>
        IF xcom.uploaded_files = 0 THEN calls = <<>>
        ELSE calls = <<NewDataRequest(xcom), RefreshRequest(xcom, ds)>>

\* C7 as stated: upload_to_s3 stores nothing at a key that holds an object,
\* so the count it reports is the number of keys it added to the bucket.
C7_SkipOnExists ==
    [][(task = "upload_to_s3" /\ task' = "trigger_analysis") =>
          xcom'.uploaded_files = Cardinality(DOMAIN storage' \ DOMAIN storage)]_vars

\* a record lacks one of age, location, level (absent, null or empty)
Blank(v) == v.t \in {"missing", "null"} \/ v = EmptyStr
Incomplete(body) ==
    \/ body.t # "dict"
    \/ body.speaker.level.t # "dict"
    \/ Blank(body.speaker.age)
    \/ Blank(body.speaker.location)
    \/ Blank(body.speaker.level.final)

\* C8: every row of a built table has a number for its age and a non-blank
\* location and level, and the table has no more rows than the bucket has
\* records with all three.
C8_CompleteRows ==
    df_master.loaded =>
        /\ \A i \in 1..Len(df_master.rows) :
              /\ ~df_master.rows[i].age.nan
              /\ ~Blank(df_master.rows[i].location)
              /\ ~Blank(df_master.rows[i].english_level)
        /\ Len(df_master.rows) <=
              Cardinality({k \in DOMAIN storage : ~Incomplete(storage[k])})

\* a table of one row was built from a bucket that also holds a record
\* without one of the three fields
C8_Witness ==
    /\ df_master.loaded /\ Len(df_master.rows) = 1
    /\ Cardinality(DOMAIN storage) = 2
    /\ \E k \in DOMAIN storage :
          storage[k].t = "dict" /\ Blank(storage[k].speaker.location)

LevelCodes == {"IG", "TL", "TM", "TH", "NA"}

\* C9: the mapping is IG, TL, TM, TH, NA to 1..5 and injective, and every
\* row of a built table has one of the five codes and the rank the mapping
\* gives it.
C9_LevelNumeric ==
    /\ DOMAIN LEVEL_MAPPING = LevelCodes
    /\ LEVEL_MAPPING["IG"] = 1 /\ LEVEL_MAPPING["TL"] = 2 /\ LEVEL_MAPPING["TM"] = 3
    /\ LEVEL_MAPPING["TH"] = 4 /\ LEVEL_MAPPING["NA"] = 5
    /\ \A a, b \in LevelCodes : LEVEL_MAPPING[a] = LEVEL_MAPPING[b] => a = b
    /\ df_master.loaded =>
          \A i \in 1..Len(df_master.rows) :
              LET row == df_master.rows[i]
              IN  /\ row.english_level.t = "str"
                  /\ Len(row.english_level.s) = 1
                  /\ row.english_level.s[1] \in LevelCodes
                  /\ row.english_level_numeric =
                        Num(LEVEL_MAPPING[row.english_level.s[1]])

\* a table with a row of level NA (rank 5) was built from a bucket that
\* also holds a record with an unknown level code
C9_Witness ==
    /\ df_master.loaded
    /\ \E i \in 1..Len(df_master.rows) :
          /\ df_master.rows[i].english_level = JStr(<<"NA">>)
          /\ df_master.rows[i].english_level_numeric = Num(5)
    /\ \E k \in DOMAIN storage :
          storage[k].t = "dict" /\ storage[k].speaker.level.final = JStr(<<"XX">>)

\* C10 as stated: no two rows of a built table have the same participant_id.
C10_UniqueParticipantId ==
    df_master.loaded =>
        \A i, j \in 1..Len(df_master.rows) :
            i # j => df_master.rows[i].participant_id # df_master.rows[j].participant_id

\* the handlers that filter, and a response of one of them whose load returned
FilterOps == {"summary", "hypothesis1", "hypothesis2", "hypothesis3", "chart_data"}
FilteredResponse == response.op \in FilterOps /\ response.ok

\* the stated meaning of a predicate: every clause whose field is set
InList(s, items) == \E i \in 1..Len(items) : items[i] = s
SatisfiesSet(row, f) ==
    /\ f.age_min.set => row.age.v >= f.age_min.v
    /\ f.age_max.set => row.age.v <= f.age_max.v
    /\ f.locations.set => InList(row.location.s, f.locations.items)
    /\ f.levels.set => InList(row.english_level.s, f.levels.items)

\* the same, where an allow-list that is empty is no clause either
SatisfiesGiven(row, f) ==
    /\ f.age_min.set => row.age.v >= f.age_min.v
    /\ f.age_max.set => row.age.v <= f.age_max.v
    /\ (f.locations.set /\ f.locations.items # <<>>) =>
          InList(row.location.s, f.locations.items)
    /\ (f.levels.set /\ f.levels.items # <<>>) =>
          InList(row.english_level.s, f.levels.items)

\* C11 (as amended): the filtered frame of a handler is exactly the rows of
\* the table that satisfy every clause whose field is set and, for the two
\* allow-lists, not empty (bounds inclusive); an unset field or an empty
\* allow-list excludes no row, and the all-unset predicate returns every row.
C11_FilterSemantics ==
    FilteredResponse =>
        /\ response.view =
              SelectSeq(response.df.rows,
                        LAMBDA row : SatisfiesGiven(row, response.filters))
        /\ response.filters = NoFilters => response.view = response.df.rows

\* a predicate with an age bound, an empty location list and a level list
\* kept some rows of the table and dropped others
C11_Witness ==
    /\ FilteredResponse
    /\ response.filters.age_min.set
    /\ response.filters.locations.set /\ response.filters.locations.items = <<>>
    /\ response.filters.levels.set /\ response.filters.levels.items # <<>>
    /\ Len(response.view) > 0 /\ Len(response.view) < Len(response.df.rows)

\* C11 as stated: the filtered frame is exactly the rows that satisfy all
\* clauses whose field is set (not None).
C11_AllSetClauses ==
    FilteredResponse =>
        response.view =
            SelectSeq(response.df.rows,
                      LAMBDA row : SatisfiesSet(row, response.filters))

\* a is b with some rows left out: same rows, same relative order
RECURSIVE IsSubSeq(_, _)
IsSubSeq(a, b) ==
    IF a = <<>> THEN TRUE
    ELSE IF b = <<>> THEN FALSE
    ELSE IF Head(a) = Head(b) THEN IsSubSeq(Tail(a), Tail(b))
    ELSE IsSubSeq(a, Tail(b))

\* C12: the filtered frame of a handler is a sub-sequence of the table it
\* filtered (rows of the table, unaltered, none twice, in the table's
\* order), and the table is, after the call, still the cached table.
C12_SubSequence ==
    FilteredResponse =>
        /\ IsSubSeq(response.view, response.df.rows)
        /\ \A i, j \in 1..Len(response.view) :
              i # j => response.view[i] # response.view[j]
        /\ df_master = response.df

\* a handler kept at least two rows and dropped at least one
C12_Witness ==
    /\ FilteredResponse /\ response.cached
    /\ Len(response.view) >= 2 /\ Len(response.view) < Len(response.df.rows)
    /\ response.view # SubSeq(response.df.rows, 1, Len(response.view))

\* predicates to compose with the one a handler applied
ComposedFilters ==
    [age_min : {Unset, OptInt(25), OptInt(30)},
     age_max : {Unset, OptInt(29), OptInt(35)},
     locations : {Unset, OptList(<<>>), OptList(<< <<"Busan">> >>)},
     levels : {Unset, OptList(<< <<"IG">> >>), OptList(<< <<"NA">>, <<"TM">> >>)}]

FilterFields == {"age_min", "age_max", "locations", "levels"}
DisjointFields(f, g) == \A x \in FilterFields : ~(f[x].set /\ g[x].set)
Combined(f, g) == [x \in FilterFields |-> IF f[x].set THEN f[x] ELSE g[x]]

\* C13: for the predicate f a handler applied to table T and every
\* predicate g that sets none of f's fields, filtering the handler's frame
\* by g, filtering T by g and then by f, and filtering T once by the
\* combined predicate give the same rows.
C13_Composition ==
    FilteredResponse =>
        \A g \in ComposedFilters :
            DisjointFields(response.filters, g) =>
                LET once == apply_filters(response.df.rows,
                                          Combined(response.filters, g)).filtered_df
                    gFirst == apply_filters(response.df.rows, g).filtered_df
                IN  /\ apply_filters(response.view, g).filtered_df = once
                    /\ apply_filters(gFirst, response.filters).filtered_df = once

\* a handler applied {age_max: 40} and dropped a row; {age_min: 25} drops
\* further rows of its frame
C13_Witness ==
    /\ FilteredResponse
    /\ response.filters = FilterRequest(Unset, OptInt(40), Unset, Unset)
    /\ Len(response.view) < Len(response.df.rows)
    /\ Len(apply_filters(response.view,
                         FilterRequest(OptInt(25), Unset, Unset, Unset)).filtered_df)
          \in 1..(Len(response.view) - 1)

\* a p-value (in thousandths) below 0.05; a comparison with NaN is false
Significant(p) == ~p.nan /\ p.v < 50

\* C14: the result of an H1 response is rejected iff Pearson p < 0.05 and
\* r < 0, accepted iff p < 0.05 and r > 0, and undecided in every other
\* case, whatever the p-values of the other tests are.
C14_H1Verdict ==
    (response.op = "hypothesis1" /\ response.status = 200) =>
        LET p == response.stats.p
            r == response.stats.r
            neg == ~r.nan /\ r.v < 0
            pos == ~r.nan /\ r.v > 0
        IN  /\ response.result \in {"rejected", "accepted", "undecided"}
            /\ response.result = "rejected" <=> (Significant(p) /\ neg)
            /\ response.result = "accepted" <=> (Significant(p) /\ pos)
            /\ response.result = "undecided" <=>
                  ~(Significant(p) /\ (neg \/ pos))

\* H1 was rejected on a significant negative r while the other tests of the
\* handler were not significant
C14_Witness ==
    /\ response.op = "hypothesis1" /\ response.status = 200
    /\ response.result = "rejected"
    /\ response.stats.p = Num(10) /\ response.stats.r = Num(-40)
    /\ response.stats.p_other = Num(900)

\* the flag that partitions the rows of H2 and of H3
FlagOf(op) ==
    IF op = "hypothesis2" THEN "is_metropolitan" ELSE "english_speaking_experience"
GroupA(rows, op) == SelectSeq(rows, LAMBDA row : row[FlagOf(op)])
GroupB(rows, op) == SelectSeq(rows, LAMBDA row : ~row[FlagOf(op)])

RECURSIVE ScoreSum(_)
ScoreSum(rows) ==
    IF rows = <<>> THEN 0
    ELSE rows[1].english_level_numeric.v + ScoreSum(Tail(rows))

\* C15: with A the filtered rows whose flag is true and B the others, the
\* result of an H2 or H3 response is accepted iff t-test p < 0.05 and
\* mean(A) < mean(B), rejected iff p < 0.05 and mean(A) > mean(B), and
\* undecided otherwise; H3 differs from H2 in the flag only.
C15_GroupVerdict ==
    (response.op \in {"hypothesis2", "hypothesis3"} /\ response.status = 200) =>
        LET a == GroupA(response.view, response.op)
            b == GroupB(response.view, response.op)
            p == response.stats.p
            less == ScoreSum(a) * Len(b) < ScoreSum(b) * Len(a)
            more == ScoreSum(a) * Len(b) > ScoreSum(b) * Len(a)
        IN  /\ response.stats.count_a = Len(a) /\ response.stats.sum_a = ScoreSum(a)
            /\ response.stats.count_b = Len(b) /\ response.stats.sum_b = ScoreSum(b)
            /\ response.result = "accepted" <=> (Significant(p) /\ less)
            /\ response.result = "rejected" <=> (Significant(p) /\ more)
            /\ response.result = "undecided" <=>
                  ~(Significant(p) /\ (less \/ more))

\* H3 was accepted: the group with experience has the lower mean rank
C15_Witness ==
    /\ response.op = "hypothesis3" /\ response.status = 200
    /\ response.result = "accepted"
    /\ response.stats.sum_a * response.stats.count_b
          < response.stats.sum_b * response.stats.count_a
    /\ response.stats.count_a # response.stats.count_b

\* C16: H1 answers insufficient data iff fewer than 10 rows pass the filter,
\* H2 and H3 iff one of the two groups has fewer than 5 rows; such an answer
\* carries no statistic and no verdict.
C16_SampleSize ==
    (response.op \in {"hypothesis1", "hypothesis2", "hypothesis3"} /\ response.ok) =>
        LET small ==
                IF response.op = "hypothesis1" THEN Len(response.view) < 10
                ELSE \/ Len(GroupA(response.view, response.op)) < 5
                     \/ Len(GroupB(response.view, response.op)) < 5
        IN  /\ response.status = 400 <=> small
            /\ response.status = 200 <=> ~small
            /\ small => /\ response.result = "insufficient data"
                        /\ response.stats = NoStats
                        /\ response.conclusion = ""

\* H2 refused 4 rows of the capital area against 10 others
C16_Witness ==
    /\ response.op = "hypothesis2" /\ response.status = 400
    /\ Len(GroupA(response.view, "hypothesis2")) = 4
    /\ Len(GroupB(response.view, "hypothesis2")) = 10

\* the five buckets as stated
AgeBucket(a) ==
    CASE a < 25 -> "early20s"
      [] a >= 25 /\ a <= 29 -> "late20s"
      [] a >= 30 /\ a <= 34 -> "early30s"
      [] a >= 35 /\ a <= 39 -> "late30s"
      [] a >= 40 -> "over40"

\* C17: every row of the cached table has the bucket of its age, with
\* boundaries a < 25, 25..29, 30..34, 35..39, a >= 40; create_age_groups
\* gives that bucket for every age 0..100 and the unknown sentinel for NaN.
C17_AgeGroups ==
    /\ \A i \in 1..Len(df_master.rows) :
          df_master.rows[i].age_group = AgeBucket(df_master.rows[i].age.v)
    /\ \A a \in 0..100 : create_age_groups(Num(a)) = AgeBucket(a)
    /\ create_age_groups(NaN) = "unknown"

\* a chart was drawn from rows of ages 24, 25, 39 and 40 in the first,
\* second, fourth and fifth bucket
C17_Witness ==
    /\ response.op = "chart_data" /\ response.status = 200
    /\ \A pair \in {<<24, "early20s">>, <<25, "late20s">>,
                    <<39, "late30s">>, <<40, "over40">>} :
          \E i \in 1..Len(response.view) :
              /\ response.view[i].age = Num(pair[1])
              /\ response.view[i].age_group = pair[2]

\* C18: a health check answers 200 whatever happens; with a table cached it
\* reports healthy with the table's row count, builds nothing and leaves
\* the cache alone; when the build it runs fails it reports unhealthy with
\* the error and the cache stays absent.
C18_Health ==
    [][(task' = task /\ response'.op = "health") =>
        /\ response'.status = 200
        /\ df_master.loaded =>
             /\ response'.result = "healthy" /\ ~response'.built
             /\ response'.n = Len(df_master.rows) /\ df_master' = df_master
        /\ (~df_master.loaded /\ response'.ok) =>
             /\ response'.result = "healthy" /\ response'.built
             /\ response'.n = Len(df_master'.rows) /\ df_master'.loaded
        /\ ~response'.ok =>
             /\ response'.result = "unhealthy" /\ response'.error # ""
             /\ df_master' = NoTable]_vars

\* a health check met missing S3 settings and reported unhealthy
C18_Witness ==
    /\ response.op = "health" /\ response.status = 200 /\ response.built
    /\ response.result = "unhealthy" /\ response.error = "config"
    /\ df_master = NoTable

BuildFaults == {"config", "credentials", "listing"}

\* C19 as stated: whichever representative objects fail to fetch or parse or
\* are rejected, a build that meets no configuration or storage fault
\* completes, and rows plus failures equal the representative objects.
C19_FailuresAbsorbed ==
    \A env \in BuildEnvs(storage) :
        LET rep_files == get_participant_representative_files(env.listing)
            b == load_all_participant_data(storage, env)
        IN  (env.fault = "none" /\ rep_files # <<>>) =>
                /\ b.ok
                /\ Len(AllRows(storage, rep_files, env.fetchFail)) + b.failed
                      = Len(rep_files)

\* C20 as stated: a build that meets no configuration or storage fault
\* completes and its table is cached, also when no record was parsed.
C20_EmptyBuildCompletes ==
    (response.built /\ response.error \notin BuildFaults) =>
        /\ response.ok
        /\ df_master.loaded /\ df_master = response.df

-----------------------------------------------------------------------------
(* C21 *)

\* float() accepts the value: a number, or a string of digits
NumericParsable(v) ==
    \/ v.t = "int"
    \/ v.t = "str" /\ v.s # <<>> /\
         \A i \in 1..Len(v.s) : v.s[i] \in {"0", "1", "2", "3", "4", "5", "6", "7", "8", "9"}

\* the level block has a Combo entry whose value is empty or not numeric
HasBadCombo(level) ==
    \E i \in 1..Len(level.combos) :
        /\ level.combos[i].k[1] = "Combo"
        /\ ~NumericParsable(level.combos[i].v)

\* the keys of the Combo entries with numeric-parsable values
GoodComboKeys(level) ==
    {level.combos[i].k : i \in {j \in 1..Len(level.combos) :
        /\ level.combos[j].k[1] = "Combo"
        /\ NumericParsable(level.combos[j].v)}}

\* C21 as stated: a stored record with valid age, location and level whose
\* level block has a Combo entry with an empty or non-numeric value still
\* yields a row, and the row's combo_scores are exactly the Combo entries
\* with numeric-parsable values.
C21_BadCombosDropped ==
    \A key \in DOMAIN storage :
        LET sp == storage[key].speaker
            row == extract_analysis_data(storage[key])
        IN  HasBadCombo(sp.level) =>
                /\ row # <<>>
                /\ {row[1].combo_scores[i].k : i \in 1..Len(row[1].combo_scores)}
                      = GoodComboKeys(sp.level)

-----------------------------------------------------------------------------
(* C22 *)

\* C22: when the build inside /reload raises, the cache is absent afterwards
\* whatever was cached before, the caller gets the error (status 500), and
\* the query that follows runs a build of its own.
C22_FailedReload ==
    [][/\ (ReloadStep /\ ~response'.ok) =>
             /\ df_master' = NoTable
             /\ response'.status = 500 /\ response'.error # ""
       /\ (QueryStep /\ response.op = "reload" /\ ~response.ok) =>
             /\ ~response'.cached /\ response'.built]_vars

\* a /reload that found a table cached failed on a storage
\* fault and left no table behind
C22_Witness ==
    /\ response.op = "reload" /\ response.status = 500
    /\ response.cached /\ response.built /\ ~response.ok
    /\ response.error \in {"credentials", "listing"}
    /\ ~df_master.loaded

-----------------------------------------------------------------------------
(* C23 *)

\* the conclusion sentences by the verdict they open with
AcceptedSentences == {"accepted: younger is better", "accepted: flagged group is better"}
RejectedSentences == {"rejected: older is better", "rejected: other group is better"}
UndecidedSentences == {"undecided: no significant relation",
                       "undecided: no significant difference"}

-----------------------------------------------------------------------------
(* C24 *)

EmptyList(field) == field.set /\ field.items = <<>>

\* the predicate with every empty allow-list replaced by an unset field
WithoutEmptyLists(f) ==
    [f EXCEPT !.locations = IF EmptyList(f.locations) THEN Unset ELSE f.locations,
              !.levels = IF EmptyList(f.levels) THEN Unset ELSE f.levels]

\* C24: a handler given a predicate whose locations or levels list is set
\* but empty returns the rows it would return with that field unset: the
\* rows satisfying the remaining clauses, not the empty table.
C24_EmptyListIsNoConstraint ==
    (FilteredResponse
        /\ (EmptyList(response.filters.locations) \/ EmptyList(response.filters.levels))) =>
        response.view =
            SelectSeq(response.df.rows,
                      LAMBDA row : SatisfiesSet(row, WithoutEmptyLists(response.filters)))

\* a summary with locations = [] next to a lower age bound and a level
\* list returned some rows of a table of ten rows and dropped others
C24_Witness ==
    /\ response.op = "summary" /\ response.ok
    /\ EmptyList(response.filters.locations) /\ response.filters.age_min.set
    /\ Len(response.df.rows) = 10
    /\ response.view # <<>> /\ Len(response.view) < 10
    /\ \E i \in 1..Len(response.view) : response.view[i].location.s = <<"Busan">>

====
